---- MODULE Spec2Model ----
(***************************************************************************)
(* Model of the refboard card board (src/src/lib.rs): the Model component  *)
(* holding a vector of cards and a drag state, and its update function,    *)
(* one action per Msg variant.                                             *)
(*                                                                         *)
(* Angles (f64 radians in the source) are kept in fixed point, one unit =  *)
(* one milliradian, with atan2 computed by octant reduction and a          *)
(* polynomial for atan on [0,1] that is exact at 0 and at 1.               *)
(***************************************************************************)
EXTENDS Integers, Sequences, FiniteSets, TLC

(* ---------------------------------------------------------------------- *)
(* Program constants                                                       *)
(* ---------------------------------------------------------------------- *)
HANDLE_RADIUS_PX == 5
MIN_CARD_SIZE_PX == 2 * HANDLE_RADIUS_PX + 1

(* ---------------------------------------------------------------------- *)
(* Bounds of the model                                                     *)
(* ---------------------------------------------------------------------- *)
\* number of Drag messages delivered in one run
MaxDrags == 2

\* inputs of Drag: movement deltas and absolute cursor positions
DragDeltas == { <<-1000, -1000>>, <<0, 0>>, <<1, -1000>> }
CursorPositions == { <<450, 150>>, <<150, 450>> }
\* inputs of CreateCard / RemoveCard
Images == { "a" }
CreatePositions == { <<0, 0>> }
RemoveIds == 0 .. 2
\* largest card store the raise-to-front step is applied to on its own
MaxCards == 4

(* ---------------------------------------------------------------------- *)
(* f64 helpers in fixed point (milliradians)                               *)
(* ---------------------------------------------------------------------- *)
PiOver4 == 785
PiOver2 == 2 * PiOver4
Pi == 4 * PiOver4
AngleScale == 1000

Abs(n) == IF n < 0 THEN -n ELSE n

Max(a, b) == IF a >= b THEN a ELSE b

\* Rust's integer division truncates toward zero
TruncDiv(a, b) ==
    IF (a >= 0) = (b > 0) THEN Abs(a) \div Abs(b) ELSE -(Abs(a) \div Abs(b))

\* atan(n / d) for 0 <= n <= d, d > 0
AtanFrac(n, d) ==
    LET t == (n * AngleScale) \div d
    IN  (PiOver4 * t + (273 * t * (AngleScale - t)) \div AngleScale) \div AngleScale

\* f64::atan2(y, x) on values converted from i32 (so zero is +0.0)
Atan2(y, x) ==
    LET ax == Abs(x)
        ay == Abs(y)
        base == IF ax = 0 /\ ay = 0 THEN 0
                ELSE IF ay <= ax THEN AtanFrac(ay, ax)
                ELSE PiOver2 - AtanFrac(ax, ay)
    IN  IF x >= 0
        THEN (IF y >= 0 THEN base ELSE -base)
        ELSE (IF y >= 0 THEN Pi - base ELSE base - Pi)

(* ---------------------------------------------------------------------- *)
(* Card, DragState                                                         *)
(* ---------------------------------------------------------------------- *)
Card(image, position, size, rotation, z) ==
    [image |-> image, position |-> position, size |-> size,
     rotation |-> rotation, z |-> z]

rotation_handle_angle(card) == Atan2(card.size[2], card.size[1])

DragNone == [kind |-> "None"]
DragMoveCard(idx) == [kind |-> "MoveCard", idx |-> idx]
DragMoveScaleHandle(idx) == [kind |-> "MoveScaleHandle", idx |-> idx]
DragMoveRotateHandle(idx) == [kind |-> "MoveRotateHandle", idx |-> idx]

VARIABLES
    cards,          \* Model.cards: function 0..len-1 -> Card (a Vec<Card>)
    drag_state,     \* Model.drag_state
    msg,            \* the message update was last called with
    should_render,  \* the value update last returned
    panicked,       \* an index was out of bounds: update unwound
    prev_cards,     \* Model.cards when update was last entered
    prev_drag_state,\* Model.drag_state when update was last entered
    abandoned,      \* the drag state the last press replaced (None after a release)
    nDrags          \* number of Drag messages delivered

vars == << cards, drag_state, msg, should_render, panicked,
           prev_cards, prev_drag_state, abandoned, nDrags >>

len(cs) == Cardinality(DOMAIN cs)

\* indices a message may carry: every valid one and the first invalid one
Indices == 0 .. len(cards)

(* ---------------------------------------------------------------------- *)
(* Model::create                                                           *)
(* ---------------------------------------------------------------------- *)
InitialCards ==
    [i \in 0 .. 1 |->
        IF i = 0 THEN Card("", <<0, 0>>, <<300, 300>>, 0, 0)
                 ELSE Card("", <<400, 0>>, <<300, 300>>, 0, 1)]

Init ==
    /\ cards = InitialCards
    /\ drag_state = DragNone
    /\ msg = [type |-> "Create"]
    /\ should_render = TRUE
    /\ panicked = FALSE
    /\ prev_cards = InitialCards
    /\ prev_drag_state = DragNone
    /\ abandoned = DragNone
    /\ nDrags = 0

(* ---------------------------------------------------------------------- *)
(* Model::update, the steps of its arms                                    *)
(* ---------------------------------------------------------------------- *)
\* variant: the loop lowers every card, without the comparison
DecrementAll(cs, selected_card_z) ==
    [i \in DOMAIN cs |-> [cs[i] EXCEPT !.z = cs[i].z - 1]]

\* lines 106-110: every card at or above the selected z goes down by one
DecrementFrom(cs, selected_card_z) ==
    [i \in DOMAIN cs |->
        IF cs[i].z >= selected_card_z
        THEN [cs[i] EXCEPT !.z = cs[i].z - 1]
        ELSE cs[i]]

\* variant: the selected card is put on top, the others are not lowered
RaiseToFrontNoLower(cs, idx) == [cs EXCEPT ![idx].z = len(cs) - 1]

\* variant: the selected card gets z = len instead of len - 1
RaiseToFrontOffByOne(cs, idx) ==
    LET selected_card_z == cs[idx].z
        lowered == [i \in DOMAIN cs |->
                       IF cs[i].z >= selected_card_z
                       THEN [cs[i] EXCEPT !.z = cs[i].z - 1]
                       ELSE cs[i]]
    IN  [lowered EXCEPT ![idx].z = len(cs)]

\* lines 104-112
RaiseToFront(cs, idx) ==
    LET selected_card_z == cs[idx].z
        lowered == DecrementFrom(cs, selected_card_z)
    IN  [lowered EXCEPT ![idx].z = len(cs) - 1]

\* variant: the rotation of every card is reset
ResetRotationAll(cs, idx) == [i \in DOMAIN cs |-> [cs[i] EXCEPT !.rotation = 0]]

\* line 125
ResetRotationOf(cs, idx) == [cs EXCEPT ![idx].rotation = 0]

\* variant: the position is kept on the board, at 0 or more on both axes
MovedCardClamped(card, delta) ==
    [card EXCEPT !.position = << Max(0, card.position[1] + delta[1]),
                                 Max(0, card.position[2] + delta[2]) >>]

\* lines 132-133
MovedCard(card, delta) ==
    [card EXCEPT !.position = << card.position[1] + delta[1],
                                 card.position[2] + delta[2] >>]

\* variant: no floor on the new size
ScaledCardNoFloor(card, delta) ==
    [card EXCEPT !.size = << card.size[1] + delta[1], card.size[2] + delta[2] >>]

\* variant: one axis under the floor puts both axes on the floor
ScaledCardJoint(card, delta) ==
    IF card.size[1] + delta[1] < MIN_CARD_SIZE_PX \/ card.size[2] + delta[2] < MIN_CARD_SIZE_PX
    THEN [card EXCEPT !.size = << MIN_CARD_SIZE_PX, MIN_CARD_SIZE_PX >>]
    ELSE [card EXCEPT !.size = << card.size[1] + delta[1], card.size[2] + delta[2] >>]

\* lines 140-141
ScaledCard(card, delta) ==
    [card EXCEPT !.size = << Max(MIN_CARD_SIZE_PX, card.size[1] + delta[1]),
                             Max(MIN_CARD_SIZE_PX, card.size[2] + delta[2]) >>]

\* variant: the handle angle is the one of the starting size, not recomputed
RotatedCardCachedHandle(card, pos) ==
    LET atan_x == pos[1] - (card.position[1] + TruncDiv(card.size[1], 2))
        atan_y == pos[2] - (card.position[2] + TruncDiv(card.size[2], 2))
    IN  [card EXCEPT !.rotation = Atan2(atan_y, atan_x) + Atan2(300, 300)]

\* variant: the new angle is added to the card's rotation
RotatedCardAccumulating(card, pos) ==
    LET atan_x == pos[1] - (card.position[1] + TruncDiv(card.size[1], 2))
        atan_y == pos[2] - (card.position[2] + TruncDiv(card.size[2], 2))
    IN  [card EXCEPT !.rotation =
            card.rotation + Atan2(atan_y, atan_x) + rotation_handle_angle(card)]

\* lines 147-154
RotatedCard(card, pos) ==
    LET cursor_x == pos[1]
        cursor_y == pos[2]
        x == card.position[1]
        y == card.position[2]
        width == card.size[1]
        height == card.size[2]
        atan_x == cursor_x - (x + TruncDiv(width, 2))
        atan_y == cursor_y - (y + TruncDiv(height, 2))
    IN  [card EXCEPT !.rotation = Atan2(atan_y, atan_x) + rotation_handle_angle(card)]

\* what update does on entry, whatever the message
Enter(m) ==
    /\ ~panicked
    /\ msg' = m
    /\ prev_cards' = cards
    /\ prev_drag_state' = drag_state

\* an out-of-bounds index: the arm unwinds, nothing is returned
Panic ==
    /\ panicked' = TRUE
    /\ UNCHANGED should_render

Return(b) ==
    /\ panicked' = FALSE
    /\ should_render' = b

StartDraggingCard(idx) ==
    /\ Enter([type |-> "StartDraggingCard", idx |-> idx])
    /\ abandoned' = drag_state
    /\ drag_state' = DragMoveCard(idx)
    /\ IF idx \in DOMAIN cards
       THEN cards' = RaiseToFront(cards, idx) /\ Return(TRUE)
       ELSE UNCHANGED cards /\ Panic
    /\ UNCHANGED nDrags

\* variant: a press on the scale handle raises the card as a press on the body does
StartDraggingScaleHandleRaises(idx) ==
    /\ Enter([type |-> "StartDraggingScaleHandle", idx |-> idx])
    /\ abandoned' = drag_state
    /\ drag_state' = DragMoveScaleHandle(idx)
    /\ cards' = IF idx \in DOMAIN cards THEN RaiseToFront(cards, idx) ELSE cards
    /\ Return(TRUE)
    /\ UNCHANGED nDrags

StartDraggingScaleHandle(idx) ==
    /\ Enter([type |-> "StartDraggingScaleHandle", idx |-> idx])
    /\ abandoned' = drag_state
    /\ drag_state' = DragMoveScaleHandle(idx)
    /\ Return(TRUE)
    /\ UNCHANGED << cards, nDrags >>

\* variant: a press on the rotate handle asks for no redraw
StartDraggingRotateHandleNoRender(idx) ==
    /\ Enter([type |-> "StartDraggingRotateHandle", idx |-> idx])
    /\ abandoned' = drag_state
    /\ drag_state' = DragMoveRotateHandle(idx)
    /\ Return(FALSE)
    /\ UNCHANGED << cards, nDrags >>

\* variant: a press while another drag is going on is ignored
StartDraggingRotateHandleIfIdle(idx) ==
    /\ Enter([type |-> "StartDraggingRotateHandle", idx |-> idx])
    /\ abandoned' = drag_state
    /\ drag_state' = IF drag_state = DragNone THEN DragMoveRotateHandle(idx) ELSE drag_state
    /\ Return(TRUE)
    /\ UNCHANGED << cards, nDrags >>

StartDraggingRotateHandle(idx) ==
    /\ Enter([type |-> "StartDraggingRotateHandle", idx |-> idx])
    /\ abandoned' = drag_state
    /\ drag_state' = DragMoveRotateHandle(idx)
    /\ Return(TRUE)
    /\ UNCHANGED << cards, nDrags >>

ResetRotation(idx) ==
    /\ Enter([type |-> "ResetRotation", idx |-> idx])
    /\ UNCHANGED abandoned
    /\ IF idx \in DOMAIN cards
       THEN cards' = ResetRotationOf(cards, idx) /\ Return(TRUE)
       ELSE UNCHANGED cards /\ Panic
    /\ UNCHANGED << drag_state, nDrags >>

\* the card the drag state names, after a Drag(delta, pos)
DraggedCard(card, kind, delta, pos) ==
    CASE kind = "MoveCard" -> MovedCard(card, delta)
      [] kind = "MoveScaleHandle" -> ScaledCard(card, delta)
      [] kind = "MoveRotateHandle" -> RotatedCard(card, pos)

\* variant: the Drag is applied to every card, not only to the dragged one
DragEveryCard(delta, pos) ==
    /\ Enter([type |-> "Drag", delta |-> delta, pos |-> pos])
    /\ UNCHANGED abandoned
    /\ nDrags < MaxDrags
    /\ nDrags' = nDrags + 1
    /\ IF drag_state.kind = "None"
       THEN UNCHANGED cards /\ Return(FALSE)
       ELSE IF drag_state.idx \in DOMAIN cards
       THEN /\ cards' = [i \in DOMAIN cards |->
                            DraggedCard(cards[i], drag_state.kind, delta, pos)]
            /\ Return(TRUE)
       ELSE UNCHANGED cards /\ Panic
    /\ UNCHANGED drag_state

\* variant: with no drag going on, the Drag moves the first card
DragIdleMovesFirst(delta, pos) ==
    /\ Enter([type |-> "Drag", delta |-> delta, pos |-> pos])
    /\ UNCHANGED abandoned
    /\ nDrags < MaxDrags
    /\ nDrags' = nDrags + 1
    /\ IF drag_state.kind = "None"
       THEN cards' = [cards EXCEPT ![0] = MovedCard(@, delta)] /\ Return(TRUE)
       ELSE IF drag_state.idx \in DOMAIN cards
       THEN /\ cards' = [cards EXCEPT ![drag_state.idx] =
                            DraggedCard(@, drag_state.kind, delta, pos)]
            /\ Return(TRUE)
       ELSE UNCHANGED cards /\ Panic
    /\ UNCHANGED drag_state

Drag(delta, pos) ==
    /\ Enter([type |-> "Drag", delta |-> delta, pos |-> pos])
    /\ UNCHANGED abandoned
    /\ nDrags < MaxDrags
    /\ nDrags' = nDrags + 1
    /\ IF drag_state.kind = "None"
       THEN UNCHANGED cards /\ Return(FALSE)
       ELSE IF drag_state.idx \in DOMAIN cards
       THEN /\ cards' = [cards EXCEPT ![drag_state.idx] =
                            DraggedCard(@, drag_state.kind, delta, pos)]
            /\ Return(TRUE)
       ELSE UNCHANGED cards /\ Panic
    /\ UNCHANGED drag_state

\* variant: the drag state is not cleared
StopDraggingKeepsState ==
    /\ Enter([type |-> "StopDragging"])
    /\ abandoned' = DragNone
    /\ Return(TRUE)
    /\ UNCHANGED << cards, drag_state, nDrags >>

StopDragging ==
    /\ Enter([type |-> "StopDragging"])
    /\ abandoned' = DragNone
    /\ drag_state' = DragNone
    /\ Return(TRUE)
    /\ UNCHANGED << cards, nDrags >>

\* the catch-all arm (line 164)
CreateCard(image, position) ==
    /\ Enter([type |-> "CreateCard", image |-> image, position |-> position])
    /\ UNCHANGED abandoned
    /\ Return(TRUE)
    /\ UNCHANGED << cards, drag_state, nDrags >>

\* variant: the arm for RemoveCard takes the last card out of the store
RemoveCardDeletes(id) ==
    /\ Enter([type |-> "RemoveCard", id |-> id])
    /\ UNCHANGED abandoned
    /\ cards' = [i \in 0 .. len(cards) - 2 |-> cards[i]]
    /\ Return(TRUE)
    /\ UNCHANGED << drag_state, nDrags >>

\* the catch-all arm (line 164)
RemoveCard(id) ==
    /\ Enter([type |-> "RemoveCard", id |-> id])
    /\ UNCHANGED abandoned
    /\ Return(TRUE)
    /\ UNCHANGED << cards, drag_state, nDrags >>

Next ==
    \/ \E idx \in Indices : StartDraggingCard(idx)
    \/ \E idx \in Indices : StartDraggingScaleHandle(idx)
    \/ \E idx \in Indices : StartDraggingRotateHandle(idx)
    \/ \E idx \in Indices : ResetRotation(idx)
    \/ \E delta \in DragDeltas, pos \in CursorPositions : Drag(delta, pos)
    \/ StopDragging
    \/ \E image \in Images, position \in CreatePositions : CreateCard(image, position)
    \/ \E id \in RemoveIds : RemoveCard(id)

Spec == Init /\ [][Next]_vars

(* ---------------------------------------------------------------------- *)
(* The raise-to-front step (lines 102-115) on card stores of 1..MaxCards   *)
(* cards in every dense z-order                                            *)
(* ---------------------------------------------------------------------- *)
ZOrders(n) ==
    { p \in [0 .. n - 1 -> 0 .. n - 1] :
        \A i, j \in 0 .. n - 1 : i # j => p[i] # p[j] }

StoreCards(p) ==
    [i \in DOMAIN p |-> Card("", <<400 * i, 0>>, <<300, 300>>, 0, p[i])]

InitStore ==
    /\ \E n \in 1 .. MaxCards : \E p \in ZOrders(n) : cards = StoreCards(p)
    /\ drag_state = DragNone
    /\ msg = [type |-> "Create"]
    /\ should_render = TRUE
    /\ panicked = FALSE
    /\ prev_cards = cards
    /\ prev_drag_state = DragNone
    /\ abandoned = DragNone
    /\ nDrags = 0

StoreNext == \E idx \in Indices : StartDraggingCard(idx)

StoreSpec == InitStore /\ [][StoreNext]_vars


(* ---------------------------------------------------------------------- *)
(* The model driven by its view (lines 169-214): the presses and resets    *)
(* carry the index view_card finds for the card, Drag and StopDragging     *)
(* come from the board; CreateCard and RemoveCard may arrive in between    *)
(* ---------------------------------------------------------------------- *)
\* movement_x / movement_y of a mousemove
MouseMovements == { <<-1000, -1000>>, <<0, 0>>, <<400, 0>> }

\* line 183: position of the first card equal to the given one, as an
\* Option (the empty set is None)
view_card_idx(cs, card) ==
    LET equal == { i \in DOMAIN cs : cs[i] = card }
    IN  IF equal = {} THEN {}
        ELSE { CHOOSE i \in equal : \A j \in equal : i <= j }

ViewNext ==
    \/ \E i \in DOMAIN cards : \E idx \in view_card_idx(cards, cards[i]) :
          StartDraggingCard(idx)
    \/ \E i \in DOMAIN cards : \E idx \in view_card_idx(cards, cards[i]) :
          StartDraggingScaleHandle(idx)
    \/ \E i \in DOMAIN cards : \E idx \in view_card_idx(cards, cards[i]) :
          StartDraggingRotateHandle(idx)
    \/ \E i \in DOMAIN cards : \E idx \in view_card_idx(cards, cards[i]) :
          ResetRotation(idx)
    \/ \E delta \in MouseMovements, pos \in CursorPositions : Drag(delta, pos)
    \/ StopDragging
    \/ \E image \in Images, position \in CreatePositions : CreateCard(image, position)
    \/ \E id \in RemoveIds : RemoveCard(id)

ViewSpec == Init /\ [][ViewNext]_vars

(* ---------------------------------------------------------------------- *)
(* Properties                                                              *)
(* ---------------------------------------------------------------------- *)
\* update returned from the arm of a message of the given type
Handled(type) == msg.type = type /\ ~panicked

\* C1: in every reachable state the z values of the N cards are a
\* permutation of 0..N-1: each value of 0..N-1 occurs exactly once and no
\* other value occurs.
C1_ZIsPermutation ==
    /\ \A v \in 0 .. len(cards) - 1 :
          Cardinality({ i \in DOMAIN cards : cards[i].z = v }) = 1
    /\ \A i \in DOMAIN cards : cards[i].z \in 0 .. len(cards) - 1

\* the card that started at the bottom has been raised over the other one
C1_Witness ==
    /\ Handled("StartDraggingCard")
    /\ prev_cards[msg.idx].z = 0
    /\ cards[msg.idx].z = len(cards) - 1
    /\ \E j \in DOMAIN cards : j # msg.idx /\ cards[j].z = 0

\* C2: StartDraggingCard(idx) on the card at z = k in a store of N cards
\* leaves the target at z = N-1, every other card that was at z >= k one
\* lower, and every card that was at z < k where it was; with two cards at
\* z = {0,1}, raising the one at 0 gives it 1 and the other 0.
C2_RaiseToFront ==
    Handled("StartDraggingCard") =>
        LET idx == msg.idx
            k == prev_cards[idx].z
            N == len(prev_cards)
        IN  /\ DOMAIN cards = DOMAIN prev_cards
            /\ cards[idx].z = N - 1
            /\ \A j \in DOMAIN cards \ {idx} :
                  cards[j].z = IF prev_cards[j].z >= k
                               THEN prev_cards[j].z - 1
                               ELSE prev_cards[j].z
            /\ (N = 2 /\ k = 0) =>
                  \A j \in DOMAIN cards \ {idx} : cards[j].z = 0 /\ cards[idx].z = 1

\* a raise from the middle of a store: a card below the target kept its z
\* and a card above it went down
C2_Witness ==
    /\ Handled("StartDraggingCard")
    /\ \E j \in DOMAIN cards :
          prev_cards[j].z < prev_cards[msg.idx].z /\ cards[j].z = prev_cards[j].z
    /\ \E j \in DOMAIN cards :
          prev_cards[j].z > prev_cards[msg.idx].z /\ cards[j].z = prev_cards[j].z - 1
    /\ cards[msg.idx].z = len(cards) - 1

\* C3: StartDraggingCard(idx) on the card already at z = N-1 leaves every
\* card as it was, so a second raise of the same card right after the first
\* changes nothing.
C3_RaiseTopIsNoOp ==
    Handled("StartDraggingCard") =>
        /\ prev_cards[msg.idx].z = len(prev_cards) - 1 => cards = prev_cards
        /\ prev_drag_state = DragMoveCard(msg.idx) => cards = prev_cards

\* the second of two raises of the same card, the first of which reordered
\* the store
C3_Witness ==
    /\ Handled("StartDraggingCard")
    /\ prev_drag_state = DragMoveCard(msg.idx)
    /\ prev_cards[msg.idx].z = len(prev_cards) - 1
    /\ \E j \in DOMAIN cards : StoreCards([i \in DOMAIN cards |-> i])[j].z # cards[j].z
    /\ len(cards) >= 3

\* C4: every card has width >= MIN_CARD_SIZE and height >= MIN_CARD_SIZE,
\* and MIN_CARD_SIZE = 2 * HANDLE_RADIUS + 1 = 11.
C4_SizeFloor ==
    /\ MIN_CARD_SIZE_PX = 11
    /\ \A i \in DOMAIN cards :
          cards[i].size[1] >= MIN_CARD_SIZE_PX /\ cards[i].size[2] >= MIN_CARD_SIZE_PX

\* a card already on the floor was resized by a negative delta again
C4_Witness ==
    /\ Handled("Drag")
    /\ prev_drag_state.kind = "MoveScaleHandle"
    /\ msg.delta = <<-1000, -1000>>
    /\ prev_cards[prev_drag_state.idx].size = <<11, 11>>
    /\ cards[prev_drag_state.idx].size = <<11, 11>>

\* C5: a Drag with delta (dx,dy) in MoveScaleHandle(idx) sets the width to
\* max(MIN_CARD_SIZE, width+dx) and the height to max(MIN_CARD_SIZE,
\* height+dy), each axis on its own, and changes nothing else of the card;
\* delta (-1000,-1000) on a 300x300 card gives (11,11).
C5_ResizeClamps ==
    (Handled("Drag") /\ prev_drag_state.kind = "MoveScaleHandle") =>
        LET idx == prev_drag_state.idx
            old == prev_cards[idx]
            w == old.size[1] + msg.delta[1]
            h == old.size[2] + msg.delta[2]
        IN  /\ cards[idx].size[1] = (IF w > 11 THEN w ELSE 11)
            /\ cards[idx].size[2] = (IF h > 11 THEN h ELSE 11)
            /\ cards[idx].position = old.position
            /\ cards[idx].rotation = old.rotation
            /\ cards[idx].z = old.z
            /\ (old.size = <<300, 300>> /\ msg.delta = <<-1000, -1000>>) =>
                  cards[idx].size = <<11, 11>>

\* one axis grew while the other went to the floor
C5_Witness ==
    /\ Handled("Drag")
    /\ prev_drag_state.kind = "MoveScaleHandle"
    /\ msg.delta = <<1, -1000>>
    /\ prev_cards[prev_drag_state.idx].size = <<300, 300>>
    /\ cards[prev_drag_state.idx].size = <<301, 11>>

\* C6: ResetRotation(idx) sets the card's rotation to 0 whatever it was and
\* whatever the drag state, and changes neither the drag state nor any
\* other field of any card.
C6_ResetRotation ==
    Handled("ResetRotation") =>
        /\ cards[msg.idx].rotation = 0
        /\ drag_state = prev_drag_state
        /\ cards = [prev_cards EXCEPT ![msg.idx].rotation = 0]

\* the card being rotated was reset while another card was turned as well
C6_Witness ==
    /\ Handled("ResetRotation")
    /\ prev_drag_state = DragMoveRotateHandle(msg.idx)
    /\ prev_cards[msg.idx].rotation # 0
    /\ cards[msg.idx].rotation = 0
    /\ \E j \in DOMAIN cards : j # msg.idx /\ cards[j].rotation # 0

\* C7: StopDragging leaves the drag state None from every drag state and
\* changes no card; a Drag received while the drag state is None changes
\* neither the cards nor the drag state.
C7_Release ==
    /\ Handled("StopDragging") => drag_state = DragNone /\ cards = prev_cards
    /\ (Handled("Drag") /\ prev_drag_state = DragNone) =>
          drag_state = DragNone /\ cards = prev_cards

\* a Drag with a non-zero delta after a move of card 0 was released
C7_Witness ==
    /\ Handled("Drag")
    /\ msg.delta # <<0, 0>>
    /\ prev_drag_state = DragNone
    /\ drag_state = DragNone
    /\ cards[0].position # InitialCards[0].position
    /\ cards = prev_cards

\* C8: CreateCard(image, position) appends a card with rotation 0, the
\* starting size and z = the card count before the call.
C8_CreateAppends ==
    Handled("CreateCard") =>
        /\ len(cards) = len(prev_cards) + 1
        /\ \A i \in DOMAIN prev_cards : cards[i] = prev_cards[i]
        /\ cards[len(prev_cards)] =
              Card(msg.image, msg.position, <<300, 300>>, 0, len(prev_cards))

\* C9: RemoveCard(id) deletes one card and leaves the others, their z
\* included, as they were.
C9_RemoveDeletes ==
    Handled("RemoveCard") =>
        /\ len(cards) = len(prev_cards) - 1
        /\ \A i \in DOMAIN cards : \E j \in DOMAIN prev_cards : cards[i] = prev_cards[j]

\* C10: the rotation a Drag writes in MoveRotateHandle(idx) does not depend
\* on the card's previous rotation nor on the delta: it is the rotation the
\* same Drag gives a card of the same position and size with any other
\* rotation, and a Drag repeated at the same position leaves it unchanged.
C10_RotateDoesNotAccumulate ==
    (Handled("Drag") /\ prev_drag_state.kind = "MoveRotateHandle") =>
        LET idx == prev_drag_state.idx
            old == prev_cards[idx]
        IN  /\ \A r \in {0, PiOver4, -Pi} :
                  cards[idx].rotation =
                      RotatedCard([old EXCEPT !.rotation = r], msg.pos).rotation
            /\ cards[idx].position = old.position
            /\ cards[idx].size = old.size
            /\ old.rotation = RotatedCard(old, msg.pos).rotation =>
                  cards[idx].rotation = old.rotation

\* the second of two Drags at the same position, with zero delta, on a
\* card whose rotation is not 0
C10_Witness ==
    /\ Handled("Drag")
    /\ prev_drag_state.kind = "MoveRotateHandle"
    /\ msg.delta = <<0, 0>>
    /\ prev_cards[prev_drag_state.idx].rotation # 0
    /\ cards[prev_drag_state.idx].rotation = prev_cards[prev_drag_state.idx].rotation


C11_ResizedWitness ==
    /\ Handled("Drag")
    /\ prev_drag_state.kind = "MoveRotateHandle"
    /\ prev_cards[prev_drag_state.idx].size = <<301, 11>>
    /\ cards[prev_drag_state.idx].rotation # 
          RotatedCardCachedHandle(prev_cards[prev_drag_state.idx], msg.pos).rotation


\* the message names a card index that is not in the store on entry
NamesMissingCard ==
    \/ /\ msg.type \in { "StartDraggingCard", "StartDraggingScaleHandle",
                         "StartDraggingRotateHandle", "ResetRotation" }
       /\ msg.idx \notin DOMAIN prev_cards
    \/ /\ msg.type = "Drag"
       /\ prev_drag_state.kind # "None"
       /\ prev_drag_state.idx \notin DOMAIN prev_cards

\* C12: a message that names a card index not in the store is a no-op: no
\* fault is raised, no card changes, and the drag state stays as it was or
\* becomes None.
C12_MissingCardIsNoOp ==
    /\ ~panicked
    /\ NamesMissingCard =>
          /\ cards = prev_cards
          /\ drag_state = prev_drag_state \/ drag_state = DragNone


\* C13: a press on the body (StartDraggingCard(idx)) raises the card to the
\* front and sets the drag state to MoveCard(idx); a press on the scale
\* handle sets it to MoveScaleHandle(idx) and a press on the rotate handle
\* to MoveRotateHandle(idx), and these two change no field of any card.
C13_PressTransitions ==
    /\ Handled("StartDraggingCard") =>
          /\ drag_state = DragMoveCard(msg.idx)
          /\ cards = [i \in DOMAIN prev_cards |->
                [prev_cards[i] EXCEPT !.z =
                    IF i = msg.idx THEN len(prev_cards) - 1
                    ELSE IF @ >= prev_cards[msg.idx].z THEN @ - 1 ELSE @]]
    /\ Handled("StartDraggingScaleHandle") =>
          drag_state = DragMoveScaleHandle(msg.idx) /\ cards = prev_cards
    /\ Handled("StartDraggingRotateHandle") =>
          drag_state = DragMoveRotateHandle(msg.idx) /\ cards = prev_cards

\* a press on the scale handle of the card at the bottom, which stays there
C13_Witness ==
    /\ Handled("StartDraggingScaleHandle")
    /\ msg.idx \in DOMAIN cards
    /\ drag_state = DragMoveScaleHandle(msg.idx)
    /\ cards[msg.idx].z = 0
    /\ cards = prev_cards


\* C14: a Drag with delta (dx,dy) in MoveCard(idx) adds dx to the card's x
\* and dy to its y, without clamping, and changes no size, rotation or z of
\* any card: the raise of the press is not repeated on a Drag.
C14_MoveAddsDelta ==
    (Handled("Drag") /\ prev_drag_state.kind = "MoveCard") =>
        LET idx == prev_drag_state.idx
        IN  /\ cards[idx].position[1] = prev_cards[idx].position[1] + msg.delta[1]
            /\ cards[idx].position[2] = prev_cards[idx].position[2] + msg.delta[2]
            /\ \A j \in DOMAIN cards :
                  /\ cards[j].size = prev_cards[j].size
                  /\ cards[j].rotation = prev_cards[j].rotation
                  /\ cards[j].z = prev_cards[j].z

\* a second move to the left and up of a card that had already left the
\* board on both axes
C14_Witness ==
    /\ Handled("Drag")
    /\ prev_drag_state.kind = "MoveCard"
    /\ msg.delta = <<-1000, -1000>>
    /\ prev_cards[prev_drag_state.idx].position[1] < 0
    /\ cards[prev_drag_state.idx].position[1] < -1000
    /\ cards[prev_drag_state.idx].position[2] < -1000


\* update returned from the arm of one of the three presses
HandledPress ==
    /\ msg.type \in { "StartDraggingCard", "StartDraggingScaleHandle",
                      "StartDraggingRotateHandle" }
    /\ ~panicked

\* the drag state a press asks for
PressedState ==
    CASE msg.type = "StartDraggingCard" -> DragMoveCard(msg.idx)
      [] msg.type = "StartDraggingScaleHandle" -> DragMoveScaleHandle(msg.idx)
      [] msg.type = "StartDraggingRotateHandle" -> DragMoveRotateHandle(msg.idx)

\* C15: a press is accepted in every drag state and replaces the drag state
\* with the new (kind, card); until the next press or release the drag
\* state stays, and every Drag changes only the newly pressed card, only in
\* the field of the new mode, and never the card of the abandoned drag.
C15_ReEntry ==
    /\ HandledPress => drag_state = PressedState /\ abandoned = prev_drag_state
    /\ (~panicked /\ msg.type \in { "Drag", "ResetRotation", "CreateCard", "RemoveCard" }) =>
          drag_state = prev_drag_state
    /\ (Handled("Drag") /\ prev_drag_state.kind # "None") =>
          LET idx == prev_drag_state.idx
              old == prev_cards[idx]
          IN  /\ \A j \in DOMAIN cards \ {idx} : cards[j] = prev_cards[j]
              /\ (abandoned.kind # "None" /\ abandoned.idx \in DOMAIN cards
                  /\ abandoned.idx # idx) =>
                    cards[abandoned.idx] = prev_cards[abandoned.idx]
              /\ prev_drag_state.kind = "MoveCard" =>
                    cards[idx] = [old EXCEPT !.position = cards[idx].position]
              /\ prev_drag_state.kind = "MoveScaleHandle" =>
                    cards[idx] = [old EXCEPT !.size = cards[idx].size]
              /\ prev_drag_state.kind = "MoveRotateHandle" =>
                    cards[idx] = [old EXCEPT !.rotation = cards[idx].rotation]

\* a move of card 0 was abandoned for a resize of card 1, and a Drag
\* resized card 1 and left card 0 where the move had put it
C15_Witness ==
    /\ Handled("Drag")
    /\ abandoned = DragMoveCard(0)
    /\ prev_drag_state = DragMoveScaleHandle(1)
    /\ cards[1].size # prev_cards[1].size
    /\ cards[0] = prev_cards[0]
    /\ cards[0].position # InitialCards[0].position


\* C16: a Drag changes at most one card, the one the drag state names: every
\* other card keeps image, position, size, rotation and z; and no press,
\* Drag, release or ResetRotation adds or removes a card.
C16_DragChangesOneCard ==
    /\ msg.type \in { "StartDraggingCard", "StartDraggingScaleHandle",
                      "StartDraggingRotateHandle", "Drag", "StopDragging",
                      "ResetRotation" } =>
          DOMAIN cards = DOMAIN prev_cards
    /\ Handled("Drag") =>
          \A j \in DOMAIN prev_cards :
              (prev_drag_state.kind = "None" \/ j # prev_drag_state.idx) =>
                  /\ cards[j].image = prev_cards[j].image
                  /\ cards[j].position = prev_cards[j].position
                  /\ cards[j].size = prev_cards[j].size
                  /\ cards[j].rotation = prev_cards[j].rotation
                  /\ cards[j].z = prev_cards[j].z

\* a Drag rotated one card while the other, resized before, stayed as it was
C16_Witness ==
    /\ Handled("Drag")
    /\ prev_drag_state.kind = "MoveRotateHandle"
    /\ cards[prev_drag_state.idx] # prev_cards[prev_drag_state.idx]
    /\ \E j \in DOMAIN cards :
          /\ j # prev_drag_state.idx
          /\ cards[j].size # InitialCards[j].size
          /\ cards[j] = prev_cards[j]


\* C17: a Drag received while the drag state is None is a no-op whatever
\* its delta and position: no fault, no card field changes and the drag
\* state stays None.
C17_IdleDragIsNoOp ==
    (msg.type = "Drag" /\ prev_drag_state.kind = "None") =>
        /\ ~panicked
        /\ msg.delta \in DragDeltas /\ msg.pos \in CursorPositions
        /\ \A j \in DOMAIN prev_cards : cards[j] = prev_cards[j]
        /\ DOMAIN cards = DOMAIN prev_cards
        /\ drag_state.kind = "None"

\* the first message of a run is a Drag with a non-zero delta
C17_Witness ==
    /\ Handled("Drag")
    /\ nDrags = 1
    /\ msg.delta = <<-1000, -1000>>
    /\ prev_drag_state = DragNone
    /\ abandoned = DragNone
    /\ cards = InitialCards
    /\ drag_state = DragNone


\* C18: when every press names a card that is in the store at the press,
\* then in every reachable state a drag state MoveCard(i),
\* MoveScaleHandle(i) or MoveRotateHandle(i) has i < number of cards,
\* across presses, Drags, ResetRotation, CreateCard and RemoveCard.
C18_DragStateResolves ==
    /\ ~panicked
    /\ drag_state.kind # "None" =>
          drag_state.idx >= 0 /\ drag_state.idx < len(cards)

\* a RemoveCard naming the card being rotated arrived in the middle of the
\* drag, and the drag state still names a card
C18_Witness ==
    /\ Handled("RemoveCard")
    /\ msg.id = 1
    /\ prev_drag_state = DragMoveRotateHandle(1)
    /\ drag_state = DragMoveRotateHandle(1)
    /\ 1 \in DOMAIN cards
    /\ nDrags >= 1

\* the card with its z left out
WithoutZ(card) ==
    [image |-> card.image, position |-> card.position, size |-> card.size,
     rotation |-> card.rotation]

\* C20: no two distinct cards are equal on all of image, position, size,
\* rotation and z, so the lookup of view_card finds for each card its own
\* index, which is the index its press and reset messages carry.
C20_CardsDistinct ==
    /\ \A i, j \in DOMAIN cards : i # j => cards[i] # cards[j]
    /\ \A i \in DOMAIN cards : view_card_idx(cards, cards[i]) = {i}

\* card 0 was moved over card 1: the two differ in z only
C20_Witness ==
    /\ Handled("Drag")
    /\ prev_drag_state = DragMoveCard(0)
    /\ WithoutZ(cards[0]) = WithoutZ(cards[1])
    /\ cards[0].z # cards[1].z
    /\ view_card_idx(cards, cards[1]) = {1}


\* C19: whenever update returns false, the cards and the drag state are the
\* same before and after the message; update returns false exactly for a
\* Drag received with drag state None, and true for every other message.
C19_RedrawFlag ==
    (~panicked /\ msg.type # "Create") =>
        /\ ~should_render => cards = prev_cards /\ drag_state = prev_drag_state
        /\ ~should_render <=> (msg.type = "Drag" /\ prev_drag_state.kind = "None")

\* a Drag in MoveCard with a zero delta changed nothing and still asked for
\* a redraw, after a Drag with no drag going on had asked for none
C19_UnchangedButRenderedCase ==
    /\ Handled("Drag")
    /\ msg.delta = <<0, 0>>
    /\ prev_drag_state.kind = "MoveCard"
    /\ cards = prev_cards
    /\ should_render
    /\ nDrags >= 2

\* a Drag with no drag going on returned false
C19_Witness ==
    /\ Handled("Drag")
    /\ prev_drag_state.kind = "None"
    /\ ~should_render
    /\ cards # InitialCards

====
